---- MODULE Spec2Model ----
(***************************************************************************)
(* Model of backend/server.py: the WikiAI chat backend.                    *)
(*                                                                         *)
(* Scores are floats with two decimals in the source; here they are        *)
(* integers in hundredths (0.98 is 98).  Every value the source computes   *)
(* is a sum of at most two such numbers followed by round(_, 2), so the    *)
(* hundredths are exact.  An Optional value is a sequence: None is <<>>    *)
(* and a present value x is <<x>>.                                         *)
(***************************************************************************)
EXTENDS Integers, Sequences, FiniteSets, TLC

VARIABLES
    in_url,            \* scorer input: the url argument
    in_content,        \* scorer input: the content argument
    called,            \* which scorer entry point has been called, "" before
    trust_score,       \* value returned by the calculate_trust_score call
    in_sources,        \* scorer input: the list given to analyze_sources
    analyzed,          \* analyzed_sources returned by the analyze_sources call
    store,             \* db.chat_messages: the documents, in insertion order
    pc,                \* per worker: where its request handler is suspended
    req,               \* per worker: the request being handled
    local,             \* per worker: the handler's local variables
    resp,              \* the exchange completed last: request, outcome, response
    next_uuid,         \* number of uuid.uuid4() values drawn so far
    clock,             \* datetime.now(timezone.utc), in ticks
    n_requests,        \* number of requests accepted so far
    temp_files         \* paths of the temporary files that exist on disk

----------------------------------------------------------------------------
(* Bounds of the model                                                     *)

MaxUrlParts == 2       \* a url is at most this many fragments of UrlParts
MaxContentParts == 2   \* a content is at most this many phrases of ContentParts
MaxRequests == 2       \* requests accepted in one behaviour of the server
MaxPreload == 102      \* documents in the largest store that SpecHistory starts from
MaxShort == 12         \* short paragraphs in a row in a content of SpecPptx

scoreVars == << in_url, in_content, called, trust_score, in_sources, analyzed >>
serverVars == << store, pc, req, local, resp, next_uuid, clock, n_requests, temp_files >>
vars == << scoreVars, serverVars >>

----------------------------------------------------------------------------
(* Strings: str.lower() and the `in` operator of Python                    *)

None == <<>>
Some(x) == <<x>>

Min(a, b) == IF a <= b THEN a ELSE b
Max(a, b) == IF a >= b THEN a ELSE b
SetMin(S) == CHOOSE m \in S : \A x \in S : m <= x
SetMax(S) == CHOOSE m \in S : \A x \in S : x <= m

UpperChars == "ABCDEFGHIJKLMNOPQRSTUVWXYZ"
LowerChars == "abcdefghijklmnopqrstuvwxyz"

UpperSet == { SubSeq(UpperChars, i, i) : i \in 1..Len(UpperChars) }

LowerMap ==
    [c \in UpperSet |->
        LET i == CHOOSE j \in 1..Len(UpperChars) : SubSeq(UpperChars, j, j) = c
        IN  SubSeq(LowerChars, i, i)]

\* str.lower() on one character (the model's inputs hold upper case only in ASCII)
LowerChar(c) == IF c \in UpperSet THEN LowerMap[c] ELSE c

RECURSIVE ToLower(_)
ToLower(s) ==
    IF Len(s) = 0 THEN ""
    ELSE IF Len(s) = 1 THEN LowerChar(s)
    ELSE LET h == Len(s) \div 2
         IN  ToLower(SubSeq(s, 1, h)) \o ToLower(SubSeq(s, h + 1, Len(s)))

\* `sub in s`
Contains(sub, s) ==
    \E i \in 1..(Len(s) - Len(sub) + 1) : SubSeq(s, i, i + Len(sub) - 1) = sub

RECURSIVE Concat(_)
Concat(parts) ==
    IF parts = <<>> THEN "" ELSE Head(parts) \o Concat(Tail(parts))

SeqsUpTo(S, n) == UNION {[1..k -> S] : k \in 0..n}

----------------------------------------------------------------------------
(* Trust Scorer                                                            *)

TRUSTED_DOMAINS == <<
    [domain |-> ".gouv.qc.ca",          score |-> 98],
    [domain |-> ".gouv.ca",             score |-> 95],
    [domain |-> ".edu",                 score |-> 90],
    [domain |-> "quebec.ca",            score |-> 97],
    [domain |-> "education.gouv.qc.ca", score |-> 98],
    [domain |-> "mees.gouv.qc.ca",      score |-> 98],
    [domain |-> "banq.qc.ca",           score |-> 88],
    [domain |-> "uqam.ca",              score |-> 85],
    [domain |-> "umontreal.ca",         score |-> 85],
    [domain |-> "ulaval.ca",            score |-> 85],
    [domain |-> "mcgill.ca",            score |-> 85],
    [domain |-> "cegep",                score |-> 75],
    [domain |-> "universit",            score |-> 75],
    [domain |-> ".ca",                  score |-> 70],
    [domain |-> ".org",                 score |-> 60],
    [domain |-> ".com",                 score |-> 40],
    [domain |-> "wikipedia",            score |-> 65] >>

quality_indicators == <<
    "bibliographie", "références", "source", "étude", "recherche",
    "académique", "officiel", "ministère", "université", "peer-review" >>

BaseScore == 50
MaxBonus == 15
BonusPerIndicator == 3
MaxScore == 98

\* the loop over TRUSTED_DOMAINS.items(): base_score after the first k entries,
\* url being url.lower()
RECURSIVE DomainLoop(_, _)
DomainLoop(url, k) ==
    IF k = 0 THEN BaseScore
    ELSE LET prev == DomainLoop(url, k - 1)
             d == TRUSTED_DOMAINS[k]
         IN  IF Contains(d.domain, url) THEN Max(prev, d.score) ELSE prev

\* the mutant of DomainScore: matching weights are added, not maximised
RECURSIVE DomainLoopSum(_, _)
DomainLoopSum(url, k) ==
    IF k = 0 THEN BaseScore
    ELSE LET prev == DomainLoopSum(url, k - 1)
             d == TRUSTED_DOMAINS[k]
         IN  IF Contains(d.domain, url)
             THEN (IF prev = BaseScore THEN Max(prev, d.score) ELSE prev + d.score)
             ELSE prev

DomainScoreSum(url) == DomainLoopSum(ToLower(url), Len(TRUSTED_DOMAINS))

DomainScore(url) == DomainLoop(ToLower(url), Len(TRUSTED_DOMAINS))

\* sum(1 for indicator in quality_indicators if indicator in content.lower())
LowerCount(lowered) ==
    Cardinality({i \in 1..Len(quality_indicators) :
                    Contains(quality_indicators[i], lowered)})

quality_count(content) == LowerCount(ToLower(content))

\* the mutant of content_bonus: the bonus is not capped
content_bonus_uncapped(content) == quality_count(content) * BonusPerIndicator

content_bonus(content) == Min(MaxBonus, quality_count(content) * BonusPerIndicator)

calculate_trust_score(url, content) ==
    LET base_score == DomainScore(url)
    IN  IF content # ""
        THEN Min(MaxScore, base_score + content_bonus(content))
        ELSE base_score

\* the mutant of TrustLevel and Recommendation: strict comparisons
TrustLevelStrict(score) ==
    IF score > 80 THEN "Très fiable"
    ELSE IF score > 60 THEN "Fiable"
    ELSE IF score > 40 THEN "Modérément fiable"
    ELSE "Peu fiable"

TrustLevel(score) ==
    IF score >= 80 THEN "Très fiable"
    ELSE IF score >= 60 THEN "Fiable"
    ELSE IF score >= 40 THEN "Modérément fiable"
    ELSE "Peu fiable"

Recommendation(score) ==
    IF score >= 70 THEN "Source recommandée"
    ELSE IF score >= 50 THEN "Vérifier avec d'autres sources"
    ELSE "Source non recommandée"

\* the body of analyze_sources: one entry per url of the list, in order
analyze_sources(sources) ==
    [i \in 1..Len(sources) |->
        LET s == calculate_trust_score(sources[i], "")
        IN  [url |-> sources[i],
             trust_score |-> s,
             trust_level |-> TrustLevel(s),
             recommendation |-> Recommendation(s)]]

----------------------------------------------------------------------------
(* Inputs of the scorer                                                    *)

UrlParts == { "education.gouv.qc.ca", ".gouv", ".ca", ".COM", ".org" }

\* phrases holding 0, 1, 2 and 4 of the quality indicators
ContentParts == { "texte ",
                  "Source ",
                  "étude et Recherche ",
                  "officiel ministère université peer-review " }

Urls == { Concat(p) : p \in SeqsUpTo(UrlParts, MaxUrlParts) }
Contents == { Concat(p) : p \in SeqsUpTo(ContentParts, MaxContentParts) }

\* a first url for a list of two sources
OtherUrl == "https://www.exemple.ca"

----------------------------------------------------------------------------
(* The server: state                                                       *)

\* no scorer call has been made
ScoreInit ==
    /\ called = ""
    /\ trust_score = 0
    /\ in_sources = <<>>
    /\ analyzed = <<>>

Procs == { "w1", "w2" }      \* request handlers that may be in flight together

\* str(uuid.uuid4()): the n-th value drawn
Uuid(n) == "uuid-" \o ToString(n)

\* what a handler delivers: `body` with status 200, or HTTPException(status)
\* with `body` as its detail; `info` tells what the handler did on the way
Exchange(endpoint, request, info, status, body) ==
    [ endpoint |-> endpoint, request |-> request, info |-> info,
      status |-> status, body |-> body ]

ServerInit ==
    /\ store = <<>>
    /\ pc = [p \in Procs |-> "idle"]
    /\ req = [p \in Procs |-> None]
    /\ local = [p \in Procs |-> None]
    /\ resp = Exchange("", None, None, 0, None)
    /\ next_uuid = 0
    /\ clock = 0
    /\ n_requests = 0
    /\ temp_files = {}

\* the worker that takes the next request: handlers are anonymous coroutines,
\* so the first free one stands for any free one
FirstIdle(p) ==
    /\ pc[p] = "idle"
    /\ p = "w1" \/ pc["w1"] # "idle"

\* a handler is entered: the request is counted
Accept == 
    /\ n_requests < MaxRequests
    /\ n_requests' = n_requests + 1

\* a handler that suspends is entered by a free worker, which binds the request
AcceptOn(p, endpoint, request) ==
    /\ FirstIdle(p)
    /\ Accept
    /\ req' = [req EXCEPT ![p] = [endpoint |-> endpoint, body |-> request]]

\* the handler of worker p ends: the response is delivered, its frame is gone
Respond(p, info, status, body) ==
    /\ resp' = Exchange(req[p].endpoint, req[p].body, info, status, body)
    /\ pc' = [pc EXCEPT ![p] = "idle"]
    /\ req' = [req EXCEPT ![p] = None]
    /\ local' = [local EXCEPT ![p] = None]

\* the mutant of insert_one: the new document replaces the last one
insert_one_replacing(collection, document) ==
    IF collection = <<>> THEN << document >>
    ELSE [collection EXCEPT ![Len(collection)] = document]

\* the mutant of insert_one: the document is written twice
insert_one_twice(collection, document) == Append(Append(collection, document), document)

\* db.chat_messages.insert_one(document)
insert_one(collection, document) == Append(collection, document)

----------------------------------------------------------------------------
(* get_ai_response and POST /api/chat                                      *)

MessageTypes == { "je_veux", "je_recherche", "sources_fiables", "activites" }

system_messages == [
    je_veux         |-> "Tu es un assistant pédagogique spécialisé ...",
    je_recherche    |-> "Tu es un assistant de recherche éducative ...",
    sources_fiables |-> "Tu es un expert en évaluation de sources ...",
    activites       |-> "Tu es un créateur d'activités pédagogiques ..." ]

\* system_messages.get(message_type, system_messages["je_veux"])
system_message_for(message_type) ==
    IF message_type \in DOMAIN system_messages
    THEN system_messages[message_type]
    ELSE system_messages["je_veux"]

document_keywords == <<
    "créer", "génère", "document", "fichier", "pdf", "word", "excel", "powerpoint",
    "télécharger", "exporter", "rapport", "résumé", "fiche", "présentation" >>

wants_document(message) ==
    \E i \in 1..Len(document_keywords) : Contains(document_keywords[i], ToLower(message))

DocumentNote == "\n\nNote: L'utilisateur semble vouloir créer un document. ..."

ApologyText == "Désolé, une erreur s'est produite. Veuillez réessayer."

CanDownloadLen == 50

\* get_ai_response up to `await chat.send_message(user_message)`: what is sent
ai_call(message, message_type) ==
    [ session_id     |-> "educai-" \o message_type,
      system_message |-> system_message_for(message_type),
      user_message   |-> IF wants_document(message)
                         THEN message \o DocumentNote ELSE message ]

\* the mutant of ai_fallback: the except branch gives no text
ai_fallback_blank(message_type) ==
    [ response |-> "", trust_score |-> None, sources |-> <<>> ]

\* the mutant of ai_fallback: the except branch keeps the score of the type
ai_fallback_scored(message_type) ==
    [ response    |-> ApologyText,
      trust_score |-> IF message_type = "sources_fiables" THEN Some(95) ELSE None,
      sources     |-> <<>> ]

\* get_ai_response, the except branch
ai_fallback(message_type) ==
    [ response |-> ApologyText, trust_score |-> None, sources |-> <<>> ]

\* the mutant of ai_success: every type is given the score
ai_success_scored(response, message_type) ==
    [ response     |-> response,
      trust_score  |-> Some(95),
      sources      |-> <<>>,
      can_download |-> Len(response) > CanDownloadLen ]

\* get_ai_response, the value returned when the provider has answered
ai_success(response, message_type) ==
    [ response     |-> response,
      trust_score  |-> IF message_type = "sources_fiables" THEN Some(95) ELSE None,
      sources      |-> <<>>,
      can_download |-> Len(response) > CanDownloadLen ]

\* get_ai_response, from the provider's outcome: an answer, or "raise"
get_ai_response(outcome, message_type) ==
    IF outcome = "raise" THEN ai_fallback(message_type)
    ELSE ai_success(outcome, message_type)

\* ChatMessage(...): id and timestamp come from the default factories
ChatMessage(id, session_id, message, response, message_type, score, sources, now) ==
    [ id           |-> id,
      session_id   |-> session_id,
      message      |-> message,
      response     |-> response,
      message_type |-> message_type,
      trust_score  |-> score,
      sources      |-> sources,
      timestamp    |-> now ]

\* the provider's outcomes: an answer of the model, or an exception
AIAnswers == { "Voici une réponse." }
AIOutcomes == AIAnswers \cup { "raise" }

ChatTypes == { "sources_fiables", "je_veux", "inconnu" }
ChatSessions == { None, Some("s1") }

\* every type with every session, and a message that asks for a document
ChatRequests ==
    [ message : { "Bonjour" }, message_type : ChatTypes, session_id : ChatSessions ]
    \cup [ message : { "Un PDF svp" }, message_type : { "sources_fiables" },
           session_id : { None } ]

\* chat_with_ai up to the provider call: `request.session_id or str(uuid.uuid4())`
ChatStart(p, request) ==
    /\ AcceptOn(p, "chat", request)
    /\ LET fresh == request.session_id = None \/ request.session_id = Some("")
       IN  /\ local' = [local EXCEPT ![p] =
                 [ session_id |-> IF fresh THEN Uuid(next_uuid + 1)
                                  ELSE request.session_id[1],
                   sent |-> ai_call(request.message, request.message_type) ]]
           /\ next_uuid' = IF fresh THEN next_uuid + 1 ELSE next_uuid
    /\ pc' = [pc EXCEPT ![p] = "chat_ai"]
    /\ UNCHANGED << store, resp, clock, temp_files, scoreVars >>

\* the provider call ends; the ChatMessage is built and insert_one is awaited
ChatAiReturn(p, outcome) ==
    /\ pc[p] = "chat_ai"
    /\ LET request == req[p].body
           ai_result == get_ai_response(outcome, request.message_type)
           chat_message == ChatMessage(Uuid(next_uuid + 1), local[p].session_id,
                               request.message, ai_result.response,
                               request.message_type, ai_result.trust_score,
                               ai_result.sources, clock + 1)
       IN  local' = [local EXCEPT ![p] =
                 [ session_id |-> local[p].session_id,
                   ai_failed |-> outcome = "raise",
                   ai_result |-> ai_result,
                   chat_message |-> chat_message ]]
    /\ next_uuid' = next_uuid + 1
    /\ clock' = clock + 1
    /\ pc' = [pc EXCEPT ![p] = "chat_insert"]
    /\ UNCHANGED << store, req, resp, n_requests, temp_files, scoreVars >>

\* insert_one ends: the document is stored and returned, or the insert raised
ChatInsert(p, ok) ==
    /\ pc[p] = "chat_insert"
    /\ LET info == [ ai_failed |-> local[p].ai_failed, insert_failed |-> ~ok ] IN
       IF ok
       THEN /\ store' = insert_one(store, local[p].chat_message)
            /\ Respond(p, info, 200, local[p].chat_message)
       ELSE /\ store' = store
            /\ Respond(p, info, 500, "Erreur lors du traitement de la demande")
    /\ UNCHANGED << next_uuid, clock, n_requests, temp_files, scoreVars >>

----------------------------------------------------------------------------
(* POST /api/analyze-file                                                  *)

FileTrustScore == 90

FileRequests ==
    [ question : { "De quoi parle ce texte ?" },
      extracted_text : { "Le texte du fichier" },
      filename : { "notes.txt" },
      message_type : { "je_veux", "sources_fiables" } ]

\* analyze_file_with_question up to `await chat.send_message(user_message)`
FileStart(p, request) ==
    /\ AcceptOn(p, "analyze-file", request)
    /\ local' = [local EXCEPT ![p] =
          [ sent |-> [ session_id     |-> "file-analysis-" \o Uuid(next_uuid + 1),
                       system_message |-> "Tu es un assistant IA spécialisé ...",
                       user_message   |-> "CONTEXTE: " \o request.filename
                                          \o " QUESTION: " \o request.question
                                          \o " CONTENU: " \o request.extracted_text ] ]]
    /\ next_uuid' = next_uuid + 1
    /\ pc' = [pc EXCEPT ![p] = "file_ai"]
    /\ UNCHANGED << store, resp, clock, temp_files, scoreVars >>

\* the provider call ends: an exception is a 500; an answer becomes a
\* ChatMessage (two uuid4 values: session_id, then id) and insert_one is awaited
FileAiReturn(p, outcome) ==
    /\ pc[p] = "file_ai"
    /\ LET request == req[p].body IN
       IF outcome = "raise"
       THEN /\ Respond(p, [ ai_failed |-> TRUE, insert_failed |-> FALSE ],
                       500, "Erreur lors de l'analyse du fichier: ...")
            /\ UNCHANGED << next_uuid, clock >>
       ELSE /\ local' = [local EXCEPT ![p] =
                  [ ai_failed |-> FALSE,
                    chat_message |->
                        ChatMessage(Uuid(next_uuid + 2),
                            "file-" \o request.filename \o "-" \o Uuid(next_uuid + 1),
                            "Analyse du fichier '" \o request.filename \o "': "
                                \o request.question,
                            outcome, request.message_type, Some(FileTrustScore),
                            << request.filename >>, clock + 1) ]]
            /\ next_uuid' = next_uuid + 2
            /\ clock' = clock + 1
            /\ pc' = [pc EXCEPT ![p] = "file_insert"]
            /\ UNCHANGED << req, resp >>
    /\ UNCHANGED << store, n_requests, temp_files, scoreVars >>

\* insert_one ends: the document is stored and returned, or the insert raised
FileInsert(p, ok) ==
    /\ pc[p] = "file_insert"
    /\ LET info == [ ai_failed |-> FALSE, insert_failed |-> ~ok ] IN
       IF ok
       THEN /\ store' = insert_one(store, local[p].chat_message)
            /\ Respond(p, info, 200, local[p].chat_message)
       ELSE /\ store' = store
            /\ Respond(p, info, 500, "Erreur lors de l'analyse du fichier: ...")
    /\ UNCHANGED << next_uuid, clock, n_requests, temp_files, scoreVars >>

----------------------------------------------------------------------------
(* GET /api/chat/history/{session_id}                                      *)

HistoryLimit == 100

\* find({"session_id": session_id}): the matching documents, in store order
Find(collection, session_id) ==
    SelectSeq(collection, LAMBDA doc : doc.session_id = session_id)

\* .sort("timestamp", 1) on documents whose timestamps are in lo..hi: those of
\* the lower half of the range, sorted, before those of the upper half; documents
\* of equal timestamp stay in store order
RECURSIVE SortRange(_, _, _)
SortRange(docs, lo, hi) ==
    IF Len(docs) <= 1 \/ lo >= hi
    THEN docs
    ELSE LET mid == (lo + hi) \div 2
             lower == SelectSeq(docs, LAMBDA doc : doc.timestamp <= mid)
             upper == SelectSeq(docs, LAMBDA doc : doc.timestamp > mid)
         IN  SortRange(lower, lo, mid) \o SortRange(upper, mid + 1, hi)

SortByTimestamp(docs) ==
    LET stamps == { docs[j].timestamp : j \in 1..Len(docs) }
    IN  IF stamps = {} THEN docs ELSE SortRange(docs, SetMin(stamps), SetMax(stamps))

\* .to_list(n)
to_list(docs, n) == SubSeq(docs, 1, Min(n, Len(docs)))

\* the mutant of history_query: no filter on the session
history_query_unfiltered(collection, session_id) ==
    to_list(SortByTimestamp(collection), HistoryLimit)

\* the mutant of history_query: the documents are left in insertion order
history_query_unsorted(collection, session_id) ==
    to_list(Find(collection, session_id), HistoryLimit)

history_query(collection, session_id) ==
    to_list(SortByTimestamp(Find(collection, session_id)), HistoryLimit)

HistorySessions == { "s1", "uuid-1", "inconnue" }

\* get_chat_history: the query answers, or raises and the handler gives a 500
GetChatHistory(session_id, db_ok) ==
    /\ Accept
    /\ resp' = IF db_ok
               THEN Exchange("history", session_id, [ db_failed |-> FALSE ],
                             200, history_query(store, session_id))
               ELSE Exchange("history", session_id, [ db_failed |-> TRUE ],
                             500, "Erreur lors de la récupération de l'historique")
    /\ UNCHANGED << store, pc, req, local, next_uuid, clock, temp_files, scoreVars >>

----------------------------------------------------------------------------
(* POST /api/sources/analyze, GET /api/subjects, GET /api/                 *)

SourceLists == { << "https://www.education.gouv.qc.ca", "http://blog.com" >> }

AnalyzeSources(sources) ==
    /\ Accept
    /\ resp' = Exchange("sources/analyze", sources, None, 200,
                        [ analyzed_sources |-> analyze_sources(sources) ])
    /\ UNCHANGED << store, pc, req, local, next_uuid, clock, temp_files, scoreVars >>

GetSchoolSubjects ==
    /\ Accept
    /\ resp' = Exchange("subjects", None, None, 200,
                        { "langues", "sciences", "sciences_humaines",
                          "formation_generale", "arts" })
    /\ UNCHANGED << store, pc, req, local, next_uuid, clock, temp_files, scoreVars >>

Root ==
    /\ Accept
    /\ resp' = Exchange("root", None, None, 200,
                        [ message |-> "API WikiAI - Assistant IA ..." ])
    /\ UNCHANGED << store, pc, req, local, next_uuid, clock, temp_files, scoreVars >>

----------------------------------------------------------------------------
(* POST /api/generate-document                                             *)

allowed_formats == << "pdf", "docx", "pptx", "xlsx" >>

InSeq(x, seq) == \E i \in 1..Len(seq) : seq[i] = x

EndsWith(str, suffix) ==
    /\ Len(suffix) <= Len(str)
    /\ SubSeq(str, Len(str) - Len(suffix) + 1, Len(str)) = suffix

\* str.replace(' ', '_')
RECURSIVE ReplaceSpaces(_)
ReplaceSpaces(str) ==
    IF Len(str) = 0 THEN ""
    ELSE (IF SubSeq(str, 1, 1) = " " THEN "_" ELSE SubSeq(str, 1, 1))
         \o ReplaceSpaces(SubSeq(str, 2, Len(str)))

\* datetime.now().strftime("%Y%m%d_%H%M%S"): some instant
Strftime == "20250101_101500"

\* the name given in Content-Disposition
document_filename(request) ==
    IF request.filename = None \/ request.filename = Some("")
    THEN ReplaceSpaces(request.title) \o "_" \o Strftime \o "." \o request.format
    ELSE IF EndsWith(request.filename[1], "." \o request.format)
         THEN request.filename[1]
         ELSE request.filename[1] \o "." \o request.format

\* the generate_*_document function called for a format, and its media type
renderer_of(format) ==
    CASE format = "pdf"  -> [ call |-> "generate_pdf_document",
                              media_type |-> "application/pdf" ]
      [] format = "docx" -> [ call |-> "generate_docx_document",
                              media_type |-> "application/vnd.openxmlformats-officedocument.wordprocessingml.document" ]
      [] format = "pptx" -> [ call |-> "generate_pptx_document",
                              media_type |-> "application/vnd.openxmlformats-officedocument.presentationml.presentation" ]
      [] format = "xlsx" -> [ call |-> "generate_xlsx_document",
                              media_type |-> "application/vnd.openxmlformats-officedocument.spreadsheetml.sheet" ]

FormatError == "Format non supporté. Formats autorisés: pdf, docx, pptx, xlsx"
GenerationError == "Erreur lors de la génération du document: "

\* generate_document: the HTTPException(400) of the validation is raised inside
\* the try block, whose `except Exception` turns every exception into a 500
generate_document(request, render_ok) ==
    IF ~InSeq(request.format, allowed_formats)
    THEN Exchange("generate-document", request, [ renderer |-> None ],
                  500, GenerationError \o "400: " \o FormatError)
    ELSE IF ~render_ok
    THEN Exchange("generate-document", request,
                  [ renderer |-> Some(renderer_of(request.format).call) ],
                  500, GenerationError \o "...")
    ELSE Exchange("generate-document", request,
                  [ renderer |-> Some(renderer_of(request.format).call) ],
                  200, [ media_type |-> renderer_of(request.format).media_type,
                         content_disposition |->
                             "attachment; filename=" \o document_filename(request) ])

DocumentRequests(formats, filenames) ==
    [ content : { "Premier point\n\nSecond point" }, title : { "Document WikiAI" },
      format : formats, filename : filenames ]

\* one request of `requests`; the renderer raises when render_ok is false
GenerateDocument(requests, renders) ==
    /\ Accept
    /\ \E request \in requests, render_ok \in renders :
          resp' = generate_document(request, render_ok)
    /\ UNCHANGED << store, pc, req, local, next_uuid, clock, temp_files, scoreVars >>

----------------------------------------------------------------------------
(* extract_text_from_file and POST /api/upload-file                        *)

max_size == 10485760
max_text_length == 10000
TruncationMarkerLen == 48

\* a text is known by its length once stripped and by the white space around it
Text(pad, body) == [ kind |-> "text", pad |-> pad, body |-> body ]
Raised == [ kind |-> "raise" ]
Unsupported == [ kind |-> "unsupported" ]
strip(text) == Text(0, text.body)
len(text) == text.pad + text.body
EmptyText == Text(0, 0)

\* the last index of "." in a file name, 0 when there is none
LastDot(filename) ==
    IF Contains(".", filename)
    THEN CHOOSE i \in 1..Len(filename) :
            /\ SubSeq(filename, i, i) = "."
            /\ \A j \in (i + 1)..Len(filename) : SubSeq(filename, j, j) # "."
    ELSE 0

\* file.filename.lower().split('.')[-1] if '.' in file.filename else ''
file_extension(filename) ==
    IF Contains(".", filename)
    THEN ToLower(SubSeq(filename, LastDot(filename) + 1, Len(filename)))
    ELSE ""

supported_extensions == { "pdf", "docx", "doc", "txt", "xlsx", "xls", "csv", "pptx" }

\* the inner try block, whose finally removes the temporary file: the parser of
\* the extension is run (for pdf a second extractor when the first finds no
\* text, for xlsx and xls a second reader when the first raises); the result is
\* the text, Raised for a parser exception, or Unsupported
parse_file(extension, env) ==
    IF extension \notin supported_extensions THEN Unsupported
    ELSE IF extension = "pdf"
    THEN (IF env.parse.kind = "raise" THEN Raised
          ELSE IF strip(env.parse).body # 0 THEN env.parse
          ELSE env.fallback)
    ELSE IF extension \in { "xlsx", "xls" }
    THEN (IF env.parse.kind = "raise" THEN env.fallback ELSE env.parse)
    ELSE env.parse

UnsupportedError == "Format de fichier non supporté: "
EmptyTextError == "Impossible d'extraire le texte de ce fichier. ..."
ExtractionError == "Erreur lors de l'extraction du texte: ..."

\* the mutant of extract_text_from_file: the empty-text check is left out
extract_text_from_file_unchecked(file, env, path) ==
    IF env.temp = "create_fails"
    THEN [ status |-> 500, value |-> ExtractionError, left |-> {} ]
    ELSE IF env.temp = "write_fails"
    THEN [ status |-> 500, value |-> ExtractionError, left |-> { path } ]
    ELSE LET parsed == parse_file(file_extension(file.filename), env) IN
         IF parsed.kind = "unsupported"
         THEN [ status |-> 400,
                value |-> UnsupportedError \o file_extension(file.filename),
                left |-> {} ]
         ELSE IF parsed.kind = "raise"
         THEN [ status |-> 500, value |-> ExtractionError, left |-> {} ]
         ELSE [ status |-> 200, value |-> strip(parsed), left |-> {} ]

\* extract_text_from_file: the status (200 for a returned text), the text or
\* the detail of the HTTPException, and the temporary files left on disk.
\* The with block that creates, fills and closes the temporary file
\* (delete=False) is outside the try whose finally unlinks it.
extract_text_from_file(file, env, path) ==
    IF env.temp = "create_fails"
    THEN [ status |-> 500, value |-> ExtractionError, left |-> {} ]
    ELSE IF env.temp = "write_fails"
    THEN [ status |-> 500, value |-> ExtractionError, left |-> { path } ]
    ELSE LET parsed == parse_file(file_extension(file.filename), env) IN
         IF parsed.kind = "unsupported"
         THEN [ status |-> 400,
                value |-> UnsupportedError \o file_extension(file.filename),
                left |-> {} ]
         ELSE IF parsed.kind = "raise"
         THEN [ status |-> 500, value |-> ExtractionError, left |-> {} ]
         ELSE IF strip(parsed).body = 0
         THEN [ status |-> 400, value |-> EmptyTextError, left |-> {} ]
         ELSE [ status |-> 200, value |-> strip(parsed), left |-> {} ]

\* extracted_text[:max_text_length] + marker
truncate(text) ==
    IF len(text) > max_text_length
    THEN [ length |-> max_text_length + TruncationMarkerLen, truncated |-> TRUE ]
    ELSE [ length |-> len(text), truncated |-> FALSE ]

\* upload_and_extract_file; the exchange keeps, beside the response, what the
\* environment did and what extract_text_from_file gave when it was called
upload_and_extract_file(file, env, path) ==
    IF ~env.read_ok
    THEN Exchange("upload-file", file, [ extracted |-> None, env |-> env ],
                  500, "Erreur lors du traitement du fichier: ...")
    ELSE IF file.size > max_size
    THEN Exchange("upload-file", file, [ extracted |-> None, env |-> env ],
                  413, "Fichier trop volumineux. Taille maximale: 10MB")
    ELSE LET r == extract_text_from_file(file, env, path) IN
         IF r.status # 200
         THEN Exchange("upload-file", file, [ extracted |-> Some(r), env |-> env ],
                       r.status, r.value)
         ELSE Exchange("upload-file", file, [ extracted |-> Some(r), env |-> env ], 200,
                       [ filename |-> file.filename,
                         file_size |-> file.size,
                         extracted_text |-> truncate(r.value),
                         text_length |-> truncate(r.value).length ])

\* tempfile.NamedTemporaryFile(delete=False, suffix="_" + filename).name
TempPath(n, filename) == "/tmp/tmp" \o ToString(n) \o "_" \o filename

Uploads(filenames, sizes) == [ filename : filenames, size : sizes ]

\* what the environment does to one upload: whether reading it works, what
\* happens to the temporary file, what the parsers give
UploadEnvs(reads, temps, parses, fallbacks) ==
    [ read_ok : reads, temp : temps, parse : parses, fallback : fallbacks ]

\* one file of `files` is uploaded in one environment of `envs`
UploadFile(files, envs) ==
    /\ Accept
    /\ \E file \in files, env \in envs :
          LET path == TempPath(next_uuid + 1, file.filename)
              out == upload_and_extract_file(file, env, path)
              entered == out.info.extracted # None /\ env.temp # "create_fails"
          IN  /\ resp' = out
              /\ temp_files' = IF out.info.extracted = None THEN temp_files
                               ELSE temp_files \cup out.info.extracted[1].left
              /\ next_uuid' = IF entered THEN next_uuid + 1 ELSE next_uuid
    /\ UNCHANGED << store, pc, req, local, clock, scoreVars >>

ServerKeepsScorer == in_url = "" /\ in_content = "" /\ ScoreInit

Init == ServerKeepsScorer /\ ServerInit

Next ==
    \/ \E p \in Procs, request \in ChatRequests : ChatStart(p, request)
    \/ \E p \in Procs, outcome \in AIOutcomes : ChatAiReturn(p, outcome)
    \/ \E p \in Procs, ok \in BOOLEAN : ChatInsert(p, ok)
    \/ \E p \in Procs, request \in FileRequests : FileStart(p, request)
    \/ \E p \in Procs, outcome \in AIOutcomes : FileAiReturn(p, outcome)
    \/ \E p \in Procs, ok \in BOOLEAN : FileInsert(p, ok)
    \/ \E sid \in HistorySessions, ok \in BOOLEAN : GetChatHistory(sid, ok)
    \/ \E sources \in SourceLists : AnalyzeSources(sources)
    \/ GetSchoolSubjects
    \/ Root
    \/ GenerateDocument(DocumentRequests({ "pdf", "txt" }, { None }), { TRUE })
    \/ UploadFile(Uploads({ "notes.txt" }, { 2048 }),
                  UploadEnvs({ TRUE }, { "ok" }, { Text(1, 20) }, { Raised }))

Spec == Init /\ [][Next]_vars

----------------------------------------------------------------------------
(* generate_pptx_document: the packing of the content into slides          *)

WhiteSpace == { " ", "\n", "\t" }
IsWhite(s, i) == SubSeq(s, i, i) \in WhiteSpace

\* str.strip()
Strip(s) ==
    IF \A i \in 1..Len(s) : IsWhite(s, i) THEN ""
    ELSE LET first == CHOOSE i \in 1..Len(s) :
                         ~IsWhite(s, i) /\ \A j \in 1..(i - 1) : IsWhite(s, j)
             last == CHOOSE i \in 1..Len(s) :
                         ~IsWhite(s, i) /\ \A j \in (i + 1)..Len(s) : IsWhite(s, j)
         IN  SubSeq(s, first, last)

\* the first index in lo..hi where sep starts in s, 0 when there is none
RECURSIVE IndexOf(_, _, _, _)
IndexOf(s, sep, lo, hi) ==
    IF lo > hi THEN 0
    ELSE IF lo = hi
    THEN (IF SubSeq(s, lo, lo + Len(sep) - 1) = sep THEN lo ELSE 0)
    ELSE LET mid == (lo + hi) \div 2
             left == IndexOf(s, sep, lo, mid)
         IN  IF left # 0 THEN left ELSE IndexOf(s, sep, mid + 1, hi)

\* str.split(sep)
RECURSIVE Split(_, _)
Split(s, sep) ==
    LET at == IndexOf(s, sep, 1, Len(s) - Len(sep) + 1) IN
    IF at = 0 THEN << s >>
    ELSE << SubSeq(s, 1, at - 1) >> \o Split(SubSeq(s, at + Len(sep), Len(s)), sep)

LongParagraph == 200
SlideCapacity == 5

\* [p.strip() for p in content.split('\n\n') if p.strip()]
paragraphs(content) ==
    LET raw == Split(content, "\n\n")
        stripped == [i \in 1..Len(raw) |-> Strip(raw[i])]
    IN  SelectSeq(stripped, LAMBDA para : para # "")

\* the mutant of append_point: the slide is closed when it holds more than five
append_point_late(state, point) ==
    LET current == Append(state.current_slide, point) IN
    IF Len(current) > SlideCapacity
    THEN [ slides_content |-> Append(state.slides_content, current),
           current_slide |-> <<>> ]
    ELSE [ slides_content |-> state.slides_content, current_slide |-> current ]

\* current_slide.append(point), and the slide is closed when it holds five
append_point(state, point) ==
    LET current == Append(state.current_slide, point) IN
    IF Len(current) >= SlideCapacity
    THEN [ slides_content |-> Append(state.slides_content, current),
           current_slide |-> <<>> ]
    ELSE [ slides_content |-> state.slides_content, current_slide |-> current ]

\* sentence.strip() + ('.' if not sentence.endswith('.') else '')
sentence_point(sentence) ==
    Strip(sentence) \o (IF EndsWith(sentence, ".") THEN "" ELSE ".")

\* the loop over the sentences of a long paragraph, from sentence k on
RECURSIVE sentence_loop(_, _, _)
sentence_loop(state, sentences, k) ==
    IF k > Len(sentences) THEN state
    ELSE IF Strip(sentences[k]) # ""
    THEN sentence_loop(append_point(state, sentence_point(sentences[k])), sentences, k + 1)
    ELSE sentence_loop(state, sentences, k + 1)

\* the loop over the paragraphs, from paragraph k on
RECURSIVE paragraph_loop(_, _, _)
paragraph_loop(state, paras, k) ==
    IF k > Len(paras) THEN state
    ELSE IF Len(paras[k]) > LongParagraph
    THEN paragraph_loop(sentence_loop(state, Split(paras[k], ". "), 1), paras, k + 1)
    ELSE paragraph_loop(append_point(state, paras[k]), paras, k + 1)

\* slides_content of generate_pptx_document
slides_content(content) ==
    LET end == paragraph_loop([ slides_content |-> <<>>, current_slide |-> <<>> ],
                              paragraphs(content), 1)
    IN  IF end.current_slide # <<>>
        THEN Append(end.slides_content, end.current_slide)
        ELSE end.slides_content

\* a string of n letters
RECURSIVE Fill(_)
Fill(n) ==
    IF n <= 0 THEN "" ELSE IF n = 1 THEN "a"
    ELSE Fill(n \div 2) \o Fill(n - (n \div 2))

ShortParagraph == "Un point. Et sa suite"

\* paragraphs that may stand before or after the short ones: blank, of exactly
\* 200 characters, of 201, of one long sentence, of six sentences among empty ones
OtherParagraphs ==
    { " \t ",
      "Un. " \o Fill(LongParagraph - 4),
      "Un. " \o Fill(LongParagraph - 3),
      " " \o Fill(LongParagraph + 1) \o ".\n",
      Concat(<< Fill(40), ". ", Fill(41), ". ", ". ", Fill(42), ".. ", " ", Fill(43),
                " . ", Fill(44), ".  ", Fill(45), ". " >>) }

RECURSIVE Join(_, _)
Join(parts, sep) ==
    IF parts = <<>> THEN ""
    ELSE IF Len(parts) = 1 THEN parts[1]
    ELSE parts[1] \o sep \o Join(Tail(parts), sep)

PptxContents ==
    { Join(head \o [i \in 1..n |-> ShortParagraph] \o tail, "\n\n") :
        head \in SeqsUpTo(OtherParagraphs, 1),
        n \in 0..MaxShort,
        tail \in SeqsUpTo(OtherParagraphs, 1) }

InitPptx ==
    /\ in_url = ""
    /\ in_content \in PptxContents
    /\ ScoreInit
    /\ ServerInit

\* generate_pptx_document(title, content) is called once, on in_content
GeneratePptxDocument ==
    /\ called = ""
    /\ called' = "generate_pptx_document"
    /\ resp' = Exchange("generate_pptx_document", in_content, None, 200,
                        slides_content(in_content))
    /\ UNCHANGED << in_url, in_content, trust_score, in_sources, analyzed >>
    /\ UNCHANGED << store, pc, req, local, next_uuid, clock, n_requests, temp_files >>

SpecPptx == InitPptx /\ [][GeneratePptxDocument]_vars

----------------------------------------------------------------------------
(* The history endpoint on stores that earlier chat requests have filled   *)

\* how the documents of a filled store were stamped and grouped: document i
\* has timestamp (i * stride) % modulus, and is of session "s2" when i is a
\* multiple of Every, of session "s1" otherwise
Stampings ==
    { [ stride |-> 1, modulus |-> 211 ],      \* inserted in timestamp order
      [ stride |-> 100, modulus |-> 211 ],    \* inserted out of order
      [ stride |-> 3, modulus |-> 5 ] }       \* many equal timestamps

StoreSizes == { 0, 1, 3 } \cup ((HistoryLimit - 1)..MaxPreload)

Every == { 0, 3, 64 }

FilledStore(n, stamping, every) ==
    [ i \in 1..n |->
        ChatMessage(Uuid(i),
                    IF every > 0 /\ i % every = 0 THEN "s2" ELSE "s1",
                    "Bonjour", "Voici une réponse.", "je_veux", None, <<>>,
                    (i * stamping.stride) % stamping.modulus) ]

InitHistory ==
    /\ ServerKeepsScorer
    /\ \E n \in StoreSizes, stamping \in Stampings, every \in Every :
          /\ store = FilledStore(n, stamping, every)
          /\ next_uuid = n
          /\ clock = stamping.modulus
    /\ pc = [p \in Procs |-> "idle"]
    /\ req = [p \in Procs |-> None]
    /\ local = [p \in Procs |-> None]
    /\ resp = Exchange("", None, None, 0, None)
    /\ n_requests = 0
    /\ temp_files = {}

NextHistory ==
    \E sid \in { "s1", "s2", "inconnue" }, ok \in BOOLEAN : GetChatHistory(sid, ok)

SpecHistory == InitHistory /\ [][NextHistory]_vars

----------------------------------------------------------------------------
(* The two endpoints that handle files, on every input of the model        *)

AllDocumentRequests ==
    DocumentRequests({ "pdf", "docx", "pptx", "xlsx", "txt", "PDF", "" },
                     { None, Some("rapport"), Some("rapport.pdf") })

AllUploads ==
    Uploads({ "notes.txt", "Rapport.PDF", "data.xyz", "README", "bilan.xlsx" },
            { 2048, max_size, max_size + 1 })

\* an environment is told up to the point where the handler stops consulting
\* it: nothing is said of the temporary file once the read has failed, of the
\* parsers once the temporary file has, of the second parser once the first has
\* given a text that is not blank
AllUploadEnvs ==
    { env \in UploadEnvs(BOOLEAN, { "ok", "create_fails", "write_fails" },
                         { Raised, Text(3, 0), Text(2, 20), Text(0, max_text_length + 1) },
                         { Raised, Text(0, 0), Text(0, 30) }) :
        /\ ~env.read_ok => env.temp = "ok"
        /\ (~env.read_ok \/ env.temp # "ok") => env.parse = Raised
        /\ (~env.read_ok \/ env.temp # "ok"
              \/ (env.parse.kind = "text" /\ env.parse.body # 0)) => env.fallback = Raised }

NextFiles ==
    \/ GenerateDocument(AllDocumentRequests, BOOLEAN)
    \/ UploadFile(AllUploads, AllUploadEnvs)

SpecFiles == Init /\ [][NextFiles]_vars

----------------------------------------------------------------------------
(* The scorer called on its own                                            *)

InitScore ==
    /\ in_url \in Urls
    /\ in_content \in Contents
    /\ ScoreInit
    /\ ServerInit

CallScore ==
    /\ called = ""
    /\ called' = "calculate_trust_score"
    /\ trust_score' = calculate_trust_score(in_url, in_content)
    /\ UNCHANGED << in_url, in_content, in_sources, analyzed, serverVars >>

\* analyze_sources gives calculate_trust_score no content
CallAnalyzeSources ==
    /\ called = ""
    /\ in_content = ""
    /\ called' = "analyze_sources"
    /\ \E sources \in {<<in_url>>, <<OtherUrl, in_url>>} :
          /\ in_sources' = sources
          /\ analyzed' = analyze_sources(sources)
    /\ UNCHANGED << in_url, in_content, trust_score, serverVars >>

NextScore == CallScore \/ CallAnalyzeSources

SpecScore == InitScore /\ [][NextScore]_vars

----------------------------------------------------------------------------
(* Properties of the Trust Scorer, under SpecScore                         *)

\* the weights of the TRUSTED_DOMAINS substrings that occur in the lowercased url
MatchingWeights(url) ==
    LET lowered == ToLower(url)
    IN  { TRUSTED_DOMAINS[k].score :
            k \in { i \in 1..Len(TRUSTED_DOMAINS) :
                       Contains(TRUSTED_DOMAINS[i].domain, lowered) } }


ScoreCalled == called = "calculate_trust_score"

\* C1: with empty content the score is the maximum of 0.5 and the weights of
\* the substrings that occur in the lowercased url: 0.5 when none occurs or
\* when every matching weight is below 0.5, the highest weight otherwise
C1_EmptyContentScore ==
    (ScoreCalled /\ in_content = "") =>
        /\ trust_score = SetMax(MatchingWeights(in_url) \cup { 50 })
        /\ MatchingWeights(in_url) = {} => trust_score = 50
        /\ (\A w \in MatchingWeights(in_url) : w < 50) => trust_score = 50

\* a url that matches two substrings of different weights, scored with the
\* higher one
C1_Witness ==
    /\ ScoreCalled /\ in_content = ""
    /\ Cardinality(MatchingWeights(in_url)) >= 2
    /\ trust_score = SetMax(MatchingWeights(in_url))
    /\ trust_score > 50

\* C2: with non-empty content the score is min(0.98, domain score +
\* min(0.15, 0.03 * count)); adding a phrase to the content never lowers the
\* score when it does not lower the count; every score lies in 0.5 .. 0.98
C2_ContentScore ==
    ScoreCalled =>
        /\ trust_score \in 50..98
        /\ in_content # "" =>
              trust_score =
                  Min(98, SetMax(MatchingWeights(in_url) \cup { 50 })
                          + Min(15, 3 * quality_count(in_content)))
        /\ LET count == quality_count(in_content)
           IN  \A part \in ContentParts :
                  quality_count(in_content \o part) >= count
                      => calculate_trust_score(in_url, in_content \o part) >= trust_score

\* a content with more than five indicators on a url of no known domain: the
\* bonus is capped at 0.15
C2_Witness ==
    /\ ScoreCalled
    /\ quality_count(in_content) > 5
    /\ MatchingWeights(in_url) = {}
    /\ trust_score = 65

AnalyzeCalled == called = "analyze_sources"

\* C3: every url sent to analyze_sources has its entry, whose level and
\* recommendation follow from the score with inclusive lower bounds; a url
\* that contains education.gouv.qc.ca has 0.98 and the top level and
\* recommendation
C3_Classification ==
    AnalyzeCalled =>
        /\ Len(analyzed) = Len(in_sources)
        /\ \A i \in 1..Len(analyzed) :
              LET e == analyzed[i]
                  sc == e.trust_score
              IN  /\ e.url = in_sources[i]
                  /\ e.trust_level = "Très fiable" <=> sc >= 80
                  /\ e.trust_level = "Fiable" <=> (60 <= sc /\ sc < 80)
                  /\ e.trust_level = "Modérément fiable" <=> (40 <= sc /\ sc < 60)
                  /\ e.trust_level = "Peu fiable" <=> sc < 40
                  /\ e.recommendation = "Source recommandée" <=> sc >= 70
                  /\ e.recommendation = "Vérifier avec d'autres sources"
                        <=> (50 <= sc /\ sc < 70)
                  /\ e.recommendation = "Source non recommandée" <=> sc < 50
                  /\ Contains("education.gouv.qc.ca", ToLower(e.url)) =>
                        /\ sc = 98
                        /\ e.trust_level = "Très fiable"
                        /\ e.recommendation = "Source recommandée"

\* a list of two urls: the first scores exactly 0.7 and is recommended, the
\* second contains education.gouv.qc.ca
C3_Witness ==
    /\ AnalyzeCalled
    /\ Len(analyzed) = 2
    /\ analyzed[1].trust_score = 70
    /\ analyzed[1].recommendation = "Source recommandée"
    /\ analyzed[1].trust_level = "Fiable"
    /\ Contains("education.gouv.qc.ca", analyzed[2].url)
    /\ analyzed[2].trust_score = 98
    /\ analyzed[2].trust_level = "Très fiable"

----------------------------------------------------------------------------
(* Properties of the chat path and of the record store, under Spec         *)

InStore(doc) == \E i \in 1..Len(store) : store[i] = doc

ChatAnswered == resp.endpoint = "chat"
ChatStored == ChatAnswered /\ resp.status = 200

\* C6: a failure of the provider call is never answered with an error: the
\* handler goes on to the insert with the fixed apology, and once the insert
\* is done the apology is stored and returned with status 200; the only
\* error of the chat path is a failed insert
C6_AiFailureIsSwallowed ==
    /\ \A p \in Procs :
          (pc[p] = "chat_insert" /\ local[p].ai_failed) =>
              /\ local[p].ai_result =
                    [ response |-> ApologyText, trust_score |-> None, sources |-> <<>> ]
              /\ local[p].chat_message.response = ApologyText
    /\ (ChatAnswered /\ resp.info.ai_failed) =>
          /\ ~resp.info.insert_failed =>
                /\ resp.status = 200
                /\ resp.body.response = ApologyText
                /\ InStore(resp.body)
          /\ resp.status # 200 => resp.info.insert_failed

\* a chat request whose provider call failed, answered 200 with the stored apology
C6_Witness ==
    /\ ChatStored
    /\ resp.info.ai_failed
    /\ resp.body.response = ApologyText
    /\ InStore(resp.body)

\* C7 as claimed: every record stored by a chat request of type sources_fiables
\* has trust_score 0.95, whatever the outcome of the provider call
C7_SourcesFiablesAlwaysScored ==
    (ChatStored /\ resp.request.message_type = "sources_fiables") =>
        /\ InStore(resp.body)
        /\ resp.body.trust_score = Some(95)

\* C7 as amended: the record has trust_score 0.95 when the provider call
\* succeeded, whatever the message; when the call failed the record carries
\* the apology and no trust_score
C7_SourcesFiablesScoredOnSuccess ==
    (ChatStored /\ resp.request.message_type = "sources_fiables") =>
        /\ InStore(resp.body)
        /\ ~resp.info.ai_failed => resp.body.trust_score = Some(95)
        /\ resp.info.ai_failed =>
              /\ resp.body.trust_score = None
              /\ resp.body.response = ApologyText

\* two stored sources_fiables records with different messages, both scored
\* 0.95, and one whose provider call failed
C7_Witness ==
    /\ ChatStored /\ resp.request.message_type = "sources_fiables"
    /\ ~resp.info.ai_failed
    /\ resp.body.trust_score = Some(95)
    /\ \E i \in 1..Len(store) :
          /\ store[i].message_type = "sources_fiables"
          /\ store[i].message # resp.body.message
          /\ store[i].sources = <<>>
          /\ store[i].trust_score = None

\* C8 as claimed: a stored record has a trust_score only if its type is
\* sources_fiables
C8_ScoreOnlyForSourcesFiables ==
    \A i \in 1..Len(store) :
        store[i].trust_score # None => store[i].message_type = "sources_fiables"

\* C8 as amended: a record of the chat path (no sources) has a trust_score only
\* if its type is sources_fiables, and it is 0.95; a record of the
\* file-analysis path (the file name as its source) has trust_score 0.90
\* whatever its type
C8_ScoreByPath ==
    \A i \in 1..Len(store) :
        IF store[i].sources = <<>>
        THEN store[i].trust_score # None =>
                /\ store[i].message_type = "sources_fiables"
                /\ store[i].trust_score = Some(95)
        ELSE store[i].trust_score = Some(90)

\* a store with a chat record of another type and no score, and a
\* file-analysis record of type je_veux with score 0.90
C8_Witness ==
    /\ \E i \in 1..Len(store) :
          /\ store[i].sources = <<>>
          /\ store[i].message_type # "sources_fiables"
          /\ store[i].trust_score = None
    /\ \E i \in 1..Len(store) :
          /\ store[i].sources # <<>>
          /\ store[i].message_type = "je_veux"
          /\ store[i].trust_score = Some(90)

IsPrefix(s, t) == Len(s) <= Len(t) /\ SubSeq(t, 1, Len(s)) = s

\* C9: the store is append-only: every step keeps the documents it held, in
\* place and unchanged; a step that changes it is the end of a chat or
\* analyze-file request that answers 200 with the one document it has added;
\* a request to any other endpoint leaves the store as it was
C9_AppendOnly ==
    [][ /\ IsPrefix(store, store')
        /\ store' # store =>
              /\ Len(store') = Len(store) + 1
              /\ \E p \in Procs : pc[p] \in { "chat_insert", "file_insert" }
                                   /\ pc'[p] = "idle"
              /\ resp'.endpoint \in { "chat", "analyze-file" }
              /\ resp'.status = 200
              /\ store'[Len(store')] = resp'.body
        /\ (n_requests' # n_requests /\ pc' = pc) => store' = store
      ]_vars

\* a request to another endpoint has been answered while the store holds a
\* record
C9_Witness ==
    /\ Len(store) = 1
    /\ resp.endpoint \in { "history", "sources/analyze", "generate-document",
                            "upload-file", "subjects", "root" }

----------------------------------------------------------------------------
(* Properties of the history endpoint, under SpecHistory                   *)

HistoryAnswered == resp.endpoint = "history"

Matching(session_id) == { i \in 1..Len(store) : store[i].session_id = session_id }

\* C10: what get_chat_history returns are documents of the store, all of the
\* requested session, in ascending order of timestamp, at most 100; for a
\* session without documents it is the empty list with status 200, the only
\* error being a failed query
C10_History ==
    HistoryAnswered =>
        /\ resp.status = 200 =>
              /\ \A i \in 1..Len(resp.body) :
                    /\ resp.body[i].session_id = resp.request
                    /\ InStore(resp.body[i])
              /\ \A i \in 1..(Len(resp.body) - 1) :
                    resp.body[i].timestamp <= resp.body[i + 1].timestamp
              /\ Len(resp.body) <= 100
              /\ Len(resp.body) = Min(100, Cardinality(Matching(resp.request)))
        /\ (Matching(resp.request) = {} /\ ~resp.info.db_failed) =>
              /\ resp.status = 200
              /\ resp.body = <<>>
        /\ resp.status # 200 => resp.info.db_failed

\* a session of more than 100 documents inserted out of timestamp order, among
\* documents of another session: 100 are returned
C10_Witness ==
    /\ HistoryAnswered /\ resp.status = 200
    /\ Cardinality(Matching(resp.request)) > 100
    /\ Cardinality(Matching(resp.request)) < Len(store)
    /\ Len(resp.body) = 100
    /\ \E j \in 1..(Len(store) - 1) : store[j].timestamp > store[j + 1].timestamp

----------------------------------------------------------------------------
(* Properties of the file endpoints, under SpecFiles                       *)

\* C4: a generate-document request with a format outside pdf, docx, pptx, xlsx
\* is answered with status 400, and no renderer is called
C4_InvalidFormatIsClientError ==
    (resp.endpoint = "generate-document"
        /\ ~InSeq(resp.request.format, allowed_formats)) =>
        /\ resp.status = 400
        /\ resp.info.renderer = None

\* C5: whenever extract_text_from_file has returned or raised, the temporary
\* file of the request is gone: no temporary file is left on disk
C5_NoTemporaryFileLeft == temp_files = {}

UploadAnswered == resp.endpoint = "upload-file"

\* the upload was read and is within the size limit, and its temporary file
\* was created and filled: the extractor has reached its dispatch
Dispatched ==
    /\ UploadAnswered
    /\ resp.info.env.read_ok
    /\ resp.request.size <= max_size
    /\ resp.info.env.temp = "ok"

\* C11: on the upload path each validation failure is answered with its own
\* client error: a file that was read and is over 10 MB gives 413 without the
\* extractor being called; an extension that no parser takes gives 400 with the
\* unsupported-format detail; a text that is empty once stripped gives 400 with
\* the empty-content detail; and a 200 answer is only given for a file within
\* the limit, of a supported extension, with a text that is not empty
C11_ValidationErrors ==
    UploadAnswered =>
        /\ (resp.info.env.read_ok /\ resp.request.size > max_size) =>
              /\ resp.status = 413
              /\ resp.info.extracted = None
        /\ resp.request.size > max_size => resp.info.extracted = None
        /\ (Dispatched
              /\ file_extension(resp.request.filename) \notin supported_extensions) =>
              /\ resp.status = 400
              /\ resp.body = UnsupportedError \o file_extension(resp.request.filename)
        /\ (Dispatched
              /\ LET parsed ==
                       parse_file(file_extension(resp.request.filename), resp.info.env)
                 IN  parsed.kind = "text" /\ strip(parsed).body = 0) =>
              /\ resp.status = 400
              /\ resp.body = EmptyTextError
        /\ resp.status = 200 =>
              /\ resp.request.size <= max_size
              /\ file_extension(resp.request.filename) \in supported_extensions
              /\ resp.body.text_length > 0

\* an upload over the limit answered 413
C11_WitnessTooLarge ==
    /\ UploadAnswered
    /\ resp.request.size = max_size + 1
    /\ resp.status = 413

\* an upload of an extension that no parser takes, answered 400
C11_WitnessUnsupported ==
    /\ Dispatched
    /\ resp.request.filename = "data.xyz"
    /\ resp.status = 400

\* an upload whose text is white space only, answered 400; for a pdf after the
\* second extractor found nothing either
C11_WitnessEmpty ==
    /\ Dispatched
    /\ resp.request.filename = "Rapport.PDF"
    /\ resp.info.env.parse = Text(3, 0)
    /\ resp.info.env.fallback = Text(0, 0)
    /\ resp.status = 400
    /\ resp.body = EmptyTextError

----------------------------------------------------------------------------
(* Properties of the slide packing, under SpecPptx                         *)

\* the bullet candidates of one paragraph: itself, or its sentences that are
\* not blank when it is longer than 200 characters
CandidatesOf(para) ==
    IF Len(para) > LongParagraph
    THEN LET sentences == Split(para, ". ")
             kept == SelectSeq(sentences, LAMBDA sentence : Strip(sentence) # "")
         IN  [k \in 1..Len(kept) |-> sentence_point(kept[k])]
    ELSE << para >>

RECURSIVE Flatten(_)
Flatten(seqs) == IF seqs = <<>> THEN <<>> ELSE Head(seqs) \o Flatten(Tail(seqs))

\* the bullet candidates of a content, in their order
Candidates(content) ==
    LET paras == paragraphs(content)
    IN  Flatten([k \in 1..Len(paras) |-> CandidatesOf(paras[k])])

PptxGenerated == resp.endpoint = "generate_pptx_document"

\* C12: the content slides hold the bullet candidates in their order, each
\* slide between 1 and 5 of them, each slide but the last exactly 5, which
\* makes ceil(candidates / 5) slides; 12 short paragraphs give slides of 5, 5
\* and 2 bullets
C12_SlidePacking ==
    PptxGenerated =>
        LET slides == resp.body
            candidates == Candidates(resp.request)
        IN  /\ Flatten(slides) = candidates
            /\ \A i \in 1..Len(slides) :
                  /\ Len(slides[i]) >= 1
                  /\ Len(slides[i]) <= 5
                  /\ i < Len(slides) => Len(slides[i]) = 5
            /\ Len(slides) = (Len(candidates) + 4) \div 5
            /\ LET paras == paragraphs(resp.request) IN
               (Len(paras) = 12 /\ \A k \in 1..12 : Len(paras[k]) <= LongParagraph) =>
                  [i \in 1..Len(slides) |-> Len(slides[i])] = << 5, 5, 2 >>

\* twelve short paragraphs and nothing else, packed into slides of 5, 5 and 2
C12_Witness ==
    /\ PptxGenerated
    /\ resp.request = Join([i \in 1..12 |-> ShortParagraph], "\n\n")
    /\ Len(resp.body) = 3
    /\ Len(resp.body[3]) = 2

\* a long paragraph whose sentences begin on one slide and end on the next
C12_WitnessSplit ==
    /\ PptxGenerated
    /\ \E k \in 1..Len(paragraphs(resp.request)) :
          /\ Len(paragraphs(resp.request)[k]) > LongParagraph
          /\ Len(CandidatesOf(paragraphs(resp.request)[k])) = 6
    /\ Len(Candidates(resp.request)) = 9
    /\ Len(resp.body) = 2
    /\ Len(resp.body[2]) = 4

----------------------------------------------------------------------------
(* Properties of the stored records and of the order of the steps of a     *)
(* chat request, under Spec                                                *)

\* C13: every stored record has a message_type of the enumerated set
\* (je_veux, je_recherche, sources_fiables, activites), also when the request
\* carried another type
C13_StoredTypesEnumerated ==
    \A i \in 1..Len(store) : store[i].message_type \in MessageTypes

ChatSteps == { "chat_ai", "chat_insert" }

\* C14, the steps of one chat request: while the provider call is awaited no
\* record exists; the end of the call builds the record from its result and
\* leaves the store alone; the end of the insert answers, with status 200, the
\* store grown by exactly the record built and the record as the body, or with
\* status 500 and the store as it was; a chat request leaves its steps in no
\* other way
C14_StepOrder ==
    [][ \A p \in Procs :
          /\ (pc[p] \notin ChatSteps /\ pc'[p] \in ChatSteps) =>
                /\ pc[p] = "idle" /\ pc'[p] = "chat_ai"
                /\ store' = store
          /\ (pc[p] = "chat_ai" /\ pc'[p] # "chat_ai") =>
                /\ pc'[p] = "chat_insert"
                /\ "chat_message" \notin DOMAIN local[p]
                /\ local'[p].chat_message.response = local'[p].ai_result.response
                /\ \A i \in 1..Len(store) : store[i].id # local'[p].chat_message.id
                /\ store' = store
                /\ n_requests' = n_requests
          /\ (pc[p] = "chat_insert" /\ pc'[p] # "chat_insert") =>
                /\ pc'[p] = "idle"
                /\ resp'.endpoint = "chat"
                /\ resp'.request = req[p].body
                /\ \/ /\ resp'.status = 200
                      /\ ~resp'.info.insert_failed
                      /\ resp'.body = local[p].chat_message
                      /\ store' = Append(store, resp'.body)
                   \/ /\ resp'.status = 500
                      /\ resp'.info.insert_failed
                      /\ store' = store
      ]_vars

\* C14, the records of chat requests in flight together: the stored records
\* have distinct ids, and a record waiting for its insert has an id that no
\* stored record and no other waiting record has
C14_DistinctRecords ==
    /\ \A i, j \in 1..Len(store) : i # j => store[i].id # store[j].id
    /\ \A p \in Procs : pc[p] = "chat_insert" =>
          /\ \A i \in 1..Len(store) : store[i].id # local[p].chat_message.id
          /\ \A q \in Procs \ { p } : pc[q] = "chat_insert" =>
                local[q].chat_message.id # local[p].chat_message.id

\* C14: the order of the steps of a chat request always holds, and so does the
\* distinctness of the records
C14_ChatRequest == C14_StepOrder /\ []C14_DistinctRecords

\* two chat requests were in flight together and both have inserted: the record
\* built last was inserted first
C14_Witness ==
    /\ ChatStored
    /\ Len(store) = 2
    /\ store[1].sources = <<>> /\ store[2].sources = <<>>
    /\ store[1].timestamp > store[2].timestamp
    /\ store[1].id # store[2].id
    /\ store[2] = resp.body

====
